---- MODULE Spec2Model ----
(***************************************************************************)
(* PrismaComponent (extensions/prisma): the lifecycle coordinator that     *)
(* binds a PrismaClient and its configuration into a LoopBack application, *)
(* locks them, and attaches Prisma middleware of an extension point.       *)
(*                                                                         *)
(* The component is modelled in standalone use (new PrismaComponent(app,   *)
(* prismaClient?, options?)): the injected fields are unset when the       *)
(* constructor runs, so both `??=` of the constructor assign.              *)
(*                                                                         *)
(* JavaScript is single-threaded: every action below is one synchronous    *)
(* run of code between two awaits.  init() and start() suspend at each     *)
(* await; other calls, bind notifications and application code may run     *)
(* while they are suspended.                                               *)
(*                                                                         *)
(* Container behaviour the component relies on (@loopback/core):           *)
(*  - Context.bind(key) creates a NEW Binding object and add()s it;        *)
(*    add() throws when the key's present binding is locked, otherwise it  *)
(*    replaces the present binding object in the registry;                 *)
(*  - Binding.lock() marks that one binding object;                        *)
(*  - a new Binding has no type and scope TRANSIENT; to() makes it         *)
(*    CONSTANT;                                                            *)
(*  - a ContextView caches its list of matching bindings until a bind      *)
(*    notification reaches it; notifications are delivered asynchronously  *)
(*    (README: "it is necessary to call process.nextTick() to guarantee    *)
(*    that the middleware registation is complete"), in order.             *)
(*                                                                         *)
(* The application code around the component (the environment) binds       *)
(* with a value, never locks or unbinds by itself, registers every         *)
(* middleware under a fresh key, and pre-binds no model key.               *)
(***************************************************************************)
EXTENDS Integers, Sequences, FiniteSets, TLC

\* ---------------------------------------------------------------- bounds
\* Operations the application performs besides constructing the component:
\* init(), start() and stop() calls, middleware registrations and bind
\* attempts on the configuration and client-handle keys.
MaxOps == 3

\* Entries of Prisma.ModelName of the generated client.
NumModels == 2

\* ---------------------------------------------------------------- values
\* PrismaClient instances: 1 and 2 exist outside the component (a caller made
\* them); 2 + k is the k-th instance init() constructs.
NoClient == 0
ExternalClients == {1, 2}
ClientIds == 1..(2 + MaxOps)
ConstructedClient(k) == 2 + k

Models == 1..NumModels

\* The model names of the schema, in the order of Prisma.ModelName: "User",
\* "UserPost", "Post", each a sequence of characters.
ModelNames ==
  << <<"U", "s", "e", "r">>,
     <<"U", "s", "e", "r", "P", "o", "s", "t">>,
     <<"P", "o", "s", "t">> >>

ModelName(m) == ModelNames[m]

\* String.prototype.toLowerCase.
LowerChar(ch) == IF ch = "U" THEN "u" ELSE IF ch = "P" THEN "p" ELSE ch
ToLowerCase(str) == [i \in 1..Len(str) |-> LowerChar(str[i])]

\* The property of a PrismaClient that is the accessor of a model: the model's
\* name with its first character in lower case ("user", "userPost", "post").
AccessorName(str) == [i \in 1..Len(str) |-> IF i = 1 THEN LowerChar(str[i]) ELSE str[i]]

\* client[prop]: the accessor <<client, prop>> when prop names one, else
\* undefined.
Undefined == <<0, <<>>>>
ClientProperty(client, prop) ==
  IF \E m \in Models : AccessorName(ModelName(m)) = prop
    THEN <<client, prop>>
    ELSE Undefined

\* PrismaBindings.PRISMA_MODEL_NAMESPACE and PrismaBindings.PRISMA_MODEL_TAG:
\* the namespace and the tag the options call "default".
PRISMA_MODEL_NAMESPACE == "default"
PRISMA_MODEL_TAG == "default"

\* The keys a model binding can have: '<namespace>.<model name>'.
Namespaces == {PRISMA_MODEL_NAMESPACE, "custom"}
ModelKeys == {<<ns, ModelName(m)>> : ns \in Namespaces, m \in 1..Len(ModelNames)}

\* PrismaOptions: lazyConnect?: boolean, prismaClient?: PrismaClientOptions
\* (0 = unset, else which options object), models?: {namespace?, tags?}.
DEFAULT_PRISMA_OPTIONS ==
  [lazyConnect |-> "false", prismaClient |-> 0, hasModels |-> TRUE,
   namespace |-> "default", tags |-> "default"]

OptionChoices ==
  { DEFAULT_PRISMA_OPTIONS,
    [lazyConnect |-> "true", prismaClient |-> 1, hasModels |-> TRUE,
     namespace |-> "custom", tags |-> "unset"],
    [lazyConnect |-> "unset", prismaClient |-> 2, hasModels |-> FALSE,
     namespace |-> "unset", tags |-> "unset"] }

\* ---------------------------------------------------------------- bindings
\* A Binding object; type "none" until a value is set.  id is its identity,
\* kept for the Binding objects of the configuration key, the only ones the
\* component holds a reference to from one step to a later one (0 elsewhere).
NoBinding(v) ==
  [bound |-> FALSE, id |-> 0, type |-> "none", scope |-> "TRANSIENT",
   value |-> v, locked |-> FALSE]

MkBinding(i, ty, sc, v, lk) ==
  [bound |-> TRUE, id |-> i, type |-> ty, scope |-> sc, value |-> v, locked |-> lk]

\* Context.add: refused when the key's present binding is locked.
CanAdd(existing) == ~(existing.bound /\ existing.locked)

\* A Binding object of a model key: it carries tags as well.
NoModelBinding ==
  [bound |-> FALSE, type |-> "none", scope |-> "TRANSIENT", value |-> Undefined,
   locked |-> FALSE, tags |-> {}]

\* createBindingFromPrismaModelName: the key of the new Binding and the
\* Binding, a constant with one tag.
createBindingFromPrismaModelName(modelObj, modelName) ==
  [key |-> <<PRISMA_MODEL_NAMESPACE, modelName>>,
   binding |-> [bound |-> TRUE, type |-> "CONSTANT", scope |-> "TRANSIENT",
                value |-> modelObj, locked |-> FALSE, tags |-> {PRISMA_MODEL_TAG}]]

\* A plausible slip: only a binding fit for attachment gets locked.
LockIfSingletonConstant(b) ==
  IF b.type = "CONSTANT" /\ b.scope = "SINGLETON" THEN [b EXCEPT !.locked = TRUE] ELSE b

\* binding.lock() on a middleware binding (the constructor's loop and its
\* 'bind' listener).
LockMiddleware(b) == [b EXCEPT !.locked = TRUE]

BindingKinds ==
  { <<"CONSTANT", "SINGLETON">>, <<"CONSTANT", "TRANSIENT">>,
    <<"DYNAMIC", "SINGLETON">> }

VARIABLES
  phase,           \* "app": no component yet; "constructed"; "ctorFailed"
  configB,         \* registry entry of the component's configuration key
  clientB,         \* registry entry of PrismaBindings.PRISMA_CLIENT_INSTANCE
  mwB,             \* registry entries of the middleware extension point, in insertion order
  modelB,          \* registry entries of the model keys
  nextId,          \* Binding objects created so far for the configuration key
  pending,         \* bind notifications queued for the component's view (middleware keys)
  isInitialized,   \* this._isInitialized
  prismaClient,    \* this._prismaClient
  options,         \* this._options
  optionsBinding,  \* this._optionsBinding: the id of the Binding object it refers to
  staleLocked,     \* the Binding object of _optionsBinding got locked while out of the registry
  cacheValid,      \* the view holds a cached list of bindings
  cachedBindings,  \* that list (middleware keys)
  attachListeners, \* 'bind' listeners registered by init() on the view
  used,            \* per client, the middleware passed to $use, in order
  clientOpts,      \* per constructed client, the options it was constructed from
  nClients,        \* PrismaClient instances constructed by init()
  calls,           \* the init()/start() calls made so far, in call order
  connectCalls,    \* $connect invocations
  disconnectCalls, \* $disconnect invocations
  stopCalls,       \* stop() calls
  nOps,            \* operations the application has performed
  suppliedClient,  \* history: the _prismaClient argument the constructor received
  regAfterInit,    \* history: per middleware key, whether init() had completed when it was registered
  listenerErrors   \* errors thrown inside the view's bind listeners

vars ==
  <<phase, configB, clientB, mwB, modelB, nextId, pending, isInitialized,
    prismaClient, options, optionsBinding, staleLocked, cacheValid,
    cachedBindings, attachListeners, used, clientOpts, nClients, calls,
    connectCalls, disconnectCalls, stopCalls, nOps, suppliedClient, regAfterInit,
    listenerErrors>>

\* The container: what application code can observe through the Context API.
container == <<configB, clientB, mwB, modelB, nextId, pending>>
\* The coordinator's own fields and its view.
component ==
  <<isInitialized, prismaClient, options, optionsBinding, staleLocked,
    cacheValid, cachedBindings, attachListeners>>
\* The clients.
clients == <<used, clientOpts, nClients, connectCalls, disconnectCalls>>

NoOptions ==
  [lazyConnect |-> "unset", prismaClient |-> 0, hasModels |-> FALSE,
   namespace |-> "unset", tags |-> "unset"]

\* A call of init() or start(): where it is suspended (pc), what its awaits
\* resolved to (cfg, vals), how it ended (err), whether it invoked $connect
\* (connects); history: whether the coordinator was initialized when it was
\* made (sawInit), how many middleware were registered by then (regd), and
\* the client handle (boundAt) and the configuration (cfgAt) bound in the
\* container at that moment.
NoCall ==
  [kind |-> "none", pc |-> "unused", cfg |-> NoOptions, vals |-> <<>>,
   err |-> "none", sawInit |-> FALSE, connects |-> 0, regd |-> 0,
   boundAt |-> NoClient, cfgAt |-> NoOptions]

Init ==
  /\ phase = "app"
  /\ configB = NoBinding(NoOptions)
  /\ clientB = NoBinding(NoClient)
  /\ mwB = <<>>
  /\ modelB = [k \in ModelKeys |-> NoModelBinding]
  /\ nextId = 0
  /\ pending = <<>>
  /\ isInitialized = FALSE
  /\ prismaClient = NoClient
  /\ options = NoOptions
  /\ optionsBinding = 0
  /\ staleLocked = FALSE
  /\ cacheValid = FALSE
  /\ cachedBindings = <<>>
  /\ attachListeners = 0
  /\ used = [c \in ClientIds |-> <<>>]
  /\ clientOpts = [c \in ClientIds |-> 0]
  /\ nClients = 0
  /\ calls = <<>>
  /\ connectCalls = 0
  /\ disconnectCalls = 0
  /\ stopCalls = 0
  /\ nOps = 0
  /\ suppliedClient = NoClient
  /\ regAfterInit = <<>>
  /\ listenerErrors = 0


\* ---------------------------------------------------------------- application code
\* app.configure(PrismaBindings.COMPONENT).to(o): an attempt to (re)bind the
\* configuration key.  Context.add throws when the present binding is locked.
Configure(o) ==
  /\ nOps < MaxOps
  /\ phase # "ctorFailed"
  /\ nOps' = nOps + 1
  /\ IF CanAdd(configB)
       THEN /\ configB' = MkBinding(nextId + 1, "CONSTANT", "TRANSIENT", o, FALSE)
            /\ nextId' = nextId + 1
       ELSE UNCHANGED <<configB, nextId>>
  /\ UNCHANGED <<phase, clientB, mwB, modelB, pending, component, clients, calls,
                 stopCalls, suppliedClient, regAfterInit, listenerErrors>>

\* app.bind(PrismaBindings.PRISMA_CLIENT_INSTANCE) with a value and a scope: an
\* attempt to (re)bind the client-handle key.
BindClient(c, ty, sc) ==
  /\ nOps < MaxOps
  /\ phase # "ctorFailed"
  /\ nOps' = nOps + 1
  /\ IF CanAdd(clientB)
       THEN clientB' = MkBinding(0, ty, sc, c, FALSE)
       ELSE UNCHANGED clientB
  /\ UNCHANGED <<phase, configB, nextId, mwB, modelB, pending, component, clients,
                 calls, stopCalls, suppliedClient, regAfterInit, listenerErrors>>

\* A middleware binding is added to the extension point under a fresh key.  The
\* component's view, once it exists, is notified later.
RegisterMiddleware(ty, sc) ==
  /\ nOps < MaxOps
  /\ phase # "ctorFailed"
  /\ nOps' = nOps + 1
  /\ mwB' = Append(mwB, MkBinding(0, ty, sc, Len(mwB) + 1, FALSE))
  /\ pending' = IF phase = "constructed" THEN Append(pending, Len(mwB) + 1) ELSE pending
  /\ regAfterInit' = Append(regAfterInit, isInitialized)
  /\ UNCHANGED <<phase, configB, clientB, modelB, nextId, component, clients, calls,
                 stopCalls, suppliedClient, listenerErrors>>

\* ---------------------------------------------------------------- constructor
\* A plausible slip: any bound client conflicts with a supplied one, the same
\* instance included.
ConflictingWheneverBothExist(pc) == pc # NoClient /\ clientB.bound

\* A plausible slip: the comparison is left out.
NeverConflicting(pc) == FALSE

\* _ensureNoConflictingPrismaProvidedAndBound: getSync(..., {optional: true})
\* gives the bound value or undefined, and `?? prismaClient` makes an absent
\* binding agree.
ConflictingPrismaProvidedAndBound(pc) ==
  /\ pc # NoClient
  /\ pc # (IF clientB.bound THEN clientB.value ELSE pc)

\* "Deep augment defaults for any unset options."
AugmentDefaults(o) ==
  IF o.hasModels
    THEN [o EXCEPT
           !.namespace = IF @ = "unset" THEN DEFAULT_PRISMA_OPTIONS.namespace ELSE @,
           !.tags = IF @ = "unset" THEN DEFAULT_PRISMA_OPTIONS.tags ELSE @]
    ELSE o

\* new PrismaComponent(app, pc, o); o = DEFAULT_PRISMA_OPTIONS when omitted.
Construct(pc, o) ==
  /\ phase = "app"
  /\ suppliedClient' = pc
  /\ IF ConflictingPrismaProvidedAndBound(pc)
       THEN /\ phase' = "ctorFailed"
            /\ UNCHANGED <<container, component>>
       ELSE /\ phase' = "constructed"
            \* the view is created; its bindings are read (and cached) and locked
            /\ cacheValid' = TRUE
            /\ cachedBindings' = [i \in 1..Len(mwB) |-> i]
            /\ mwB' = [i \in 1..Len(mwB) |-> LockMiddleware(mwB[i])]
            \* getBinding(config) ?? bind(config): the second creates a blank binding
            /\ optionsBinding' = IF configB.bound THEN configB.id ELSE nextId + 1
            /\ options' = AugmentDefaults(o)
            /\ prismaClient' = pc
            \* if that binding has no type: bind(config).to(this._options), a new Binding
            /\ IF configB.bound /\ configB.type # "none"
                 THEN UNCHANGED <<configB, nextId>>
                 ELSE /\ configB' = MkBinding(nextId + 2, "CONSTANT", "TRANSIENT",
                                              AugmentDefaults(o), FALSE)
                      /\ nextId' = nextId + 2
            /\ UNCHANGED <<clientB, modelB, pending, isInitialized, staleLocked,
                           attachListeners>>
  /\ UNCHANGED <<clients, calls, stopCalls, nOps, regAfterInit, listenerErrors>>


\* ---------------------------------------------------------------- init()
\* Call t's record (a call being made has none yet), and the calls with t's
\* record set to r.
CallRec(t) ==
  IF t <= Len(calls)
    THEN calls[t]
    ELSE [NoCall EXCEPT !.regd = Len(mwB),
                        !.boundAt = IF clientB.bound THEN clientB.value ELSE NoClient,
                        !.cfgAt = configB.value]
SetCall(t, r) == IF t <= Len(calls) THEN [calls EXCEPT ![t] = r] ELSE Append(calls, r)

\* A plausible slip: init() without its guard.
AlreadyInitializedNoGuard == FALSE

\* `if (this._isInitialized) return;`
AlreadyInitialized == isInitialized

\* A plausible slip: one error kind for both defects of the binding.
ClientBindingCheckOneKind ==
  IF ~clientB.bound THEN "bind"
  ELSE IF clientB.scope # "SINGLETON" \/ clientB.type # "CONSTANT"
    THEN "PrismaClientNotSingletonError"
  ELSE "ok"

\* A plausible slip: a binding that is not singleton-scoped is bound anew
\* instead of being refused.
ClientBindingCheckRebinds ==
  IF ~clientB.bound \/ clientB.scope # "SINGLETON" THEN "bind"
  ELSE IF clientB.type # "CONSTANT" THEN "Error"
  ELSE "ok"

\* _ensureValidPrismaClientBinding: what it does with the present binding.
ClientBindingCheck ==
  IF ~clientB.bound THEN "bind"
  ELSE IF clientB.scope # "SINGLETON" THEN "PrismaClientNotSingletonError"
  ELSE IF clientB.type # "CONSTANT" THEN "Error"
  ELSE "ok"

\* this._prismaMiddleware.bindings: the cached list, else the registry's
\* matching bindings, which are then cached.
ViewBindings == IF cacheValid THEN cachedBindings ELSE [i \in 1..Len(mwB) |-> i]

\* The value each binding of the list resolves to (the middleware function
\* registered under the key).
ViewValues == [i \in 1..Len(ViewBindings) |-> mwB[ViewBindings[i]].value]

\* this._optionsBinding.lock(): locks the Binding object the field refers to,
\* which is the registry's only if it was not replaced since.
LockOptionsBinding(b) ==
  IF b.bound /\ b.id = optionsBinding THEN [b EXCEPT !.locked = TRUE] ELSE b

\* lines 261-271: lock both bindings, then call values() on the view; cb is
\* the registry's client-handle binding at that point.  The call suspends at
\* the await with the values resolved at the time of the call.
LockAndDrain(t, k, cb) ==
  /\ clientB' = [cb EXCEPT !.locked = TRUE]
  /\ configB' = LockOptionsBinding(configB)
  /\ staleLocked' = (staleLocked \/ ~(configB.bound /\ configB.id = optionsBinding))
  /\ cacheValid' = TRUE
  /\ cachedBindings' = ViewBindings
  /\ calls' = SetCall(t, [CallRec(t) EXCEPT !.kind = k, !.pc = "awaitValues",
                                            !.vals = ViewValues, !.cfg = NoOptions])

\* init() up to its first await, as call t of kind k ("init", or "start" when
\* start() calls it).
InitBegin(t, k) ==
  IF ConflictingPrismaProvidedAndBound(prismaClient)
    THEN /\ calls' = SetCall(t, [CallRec(t) EXCEPT !.kind = k, !.pc = "failed",
                                                   !.err = "Conflict"])
         /\ UNCHANGED <<container, component, clients>>
  ELSE IF prismaClient # NoClient
    THEN IF ClientBindingCheck \in {"bind", "ok"}
           THEN /\ LockAndDrain(t, k,
                     IF ClientBindingCheck = "bind"
                       THEN MkBinding(0, "CONSTANT", "SINGLETON", prismaClient, FALSE)
                       ELSE clientB)
                /\ UNCHANGED <<mwB, modelB, nextId, pending, isInitialized,
                               prismaClient, options, optionsBinding,
                               attachListeners, clients>>
           ELSE /\ calls' = SetCall(t, [CallRec(t) EXCEPT !.kind = k, !.pc = "failed",
                                                          !.err = ClientBindingCheck])
                /\ UNCHANGED <<container, component, clients>>
  ELSE \* await this._app.get(componentConfigBindingKey)
       /\ calls' = SetCall(t, [CallRec(t) EXCEPT !.kind = k, !.pc = "awaitGet",
                                                 !.cfg = configB.value])
       /\ UNCHANGED <<container, component, clients>>

\* A call of init().
CallInit ==
  /\ phase = "constructed"
  /\ nOps < MaxOps
  /\ nOps' = nOps + 1
  /\ IF AlreadyInitialized
       THEN /\ calls' = SetCall(Len(calls) + 1,
                                 [CallRec(Len(calls) + 1) EXCEPT
                                    !.kind = "init", !.pc = "done", !.sawInit = TRUE])
            /\ UNCHANGED <<container, component, clients>>
       ELSE InitBegin(Len(calls) + 1, "init")
  /\ UNCHANGED <<phase, stopCalls, suppliedClient, regAfterInit, listenerErrors>>

\* A plausible slip: the client options are taken from this._options as it
\* was before the late refresh.
ClientOptionsBeforeRefresh(cfg) == options.prismaClient

\* `const {prismaClient: prismaOptions} = this._options;` after the refresh.
ClientOptionsOf(cfg) == cfg.prismaClient

\* init() resumed after `await this._app.get(...)`: the else branch, then
\* lines 261-271.
ResumeGet(t) ==
  /\ calls[t].pc = "awaitGet"
  /\ options' = calls[t].cfg
  /\ prismaClient' = ConstructedClient(nClients + 1)
  /\ nClients' = nClients + 1
  /\ clientOpts' = [clientOpts EXCEPT ![ConstructedClient(nClients + 1)] =
                      ClientOptionsOf(calls[t].cfg)]
  /\ IF CanAdd(clientB)
       THEN /\ LockAndDrain(t, calls[t].kind,
                 MkBinding(0, "CONSTANT", "SINGLETON",
                           ConstructedClient(nClients + 1), FALSE))
       ELSE /\ calls' = [calls EXCEPT ![t] =
                           [@ EXCEPT !.pc = "failed", !.err = "RebindLocked",
                                     !.cfg = NoOptions]]
            /\ UNCHANGED <<configB, clientB, staleLocked, cacheValid, cachedBindings>>
  /\ UNCHANGED <<phase, mwB, modelB, nextId, pending, isInitialized, optionsBinding,
                 attachListeners, used, connectCalls, disconnectCalls, stopCalls,
                 nOps, suppliedClient, regAfterInit, listenerErrors>>

\* The Binding init() makes for model m (lines 294-299): of
\* this._prismaClient[modelName.toLowerCase()], locked.
ModelBindingOf(m) ==
  LET made == createBindingFromPrismaModelName(
                ClientProperty(prismaClient, ToLowerCase(ModelName(m))), ModelName(m))
  IN  [made EXCEPT !.binding.locked = TRUE]

\* The first model whose key's present binding refuses app.add (NumModels + 1:
\* none does).
FirstBlocked ==
  IF \E m \in Models : ~CanAdd(modelB[ModelBindingOf(m).key])
    THEN CHOOSE m \in Models :
           /\ ~CanAdd(modelB[ModelBindingOf(m).key])
           /\ \A n \in Models : n < m => CanAdd(modelB[ModelBindingOf(n).key])
    ELSE NumModels + 1

\* init() resumed after `await this._prismaMiddleware.values()`: the drain,
\* the bind listener, the model bindings, the flag.
ResumeValues(t) ==
  /\ calls[t].pc = "awaitValues"
  /\ used' = [used EXCEPT ![prismaClient] = @ \o calls[t].vals]
  /\ attachListeners' = attachListeners + 1
  /\ modelB' = [k \in ModelKeys |->
                  IF \E m \in Models : m < FirstBlocked /\ ModelBindingOf(m).key = k
                    THEN LET m == CHOOSE n \in Models : ModelBindingOf(n).key = k
                         IN  ModelBindingOf(m).binding
                    ELSE modelB[k]]
  /\ IF FirstBlocked > NumModels
       THEN /\ isInitialized' = TRUE
            /\ calls' = [calls EXCEPT ![t] =
                 [@ EXCEPT !.vals = <<>>,
                           !.pc = IF calls[t].kind = "start" THEN "awaitInit" ELSE "done"]]
       ELSE /\ calls' = [calls EXCEPT ![t] =
                           [@ EXCEPT !.vals = <<>>, !.pc = "failed",
                                     !.err = "RebindLocked"]]
            /\ UNCHANGED isInitialized
  /\ UNCHANGED <<phase, configB, clientB, mwB, nextId, pending, prismaClient, options,
                 optionsBinding, staleLocked, cacheValid, cachedBindings, clientOpts,
                 nClients, connectCalls, disconnectCalls, stopCalls, nOps,
                 suppliedClient, regAfterInit, listenerErrors>>

\* ---------------------------------------------------------------- start(), stop()
\* A plausible slip: an unset flag read as lazy.
LazyConnectUnlessFalse == options.lazyConnect # "false"

\* `if (this._options.lazyConnect) return;`
LazyConnect == options.lazyConnect = "true"

\* start() after its init: return at once, or return this._prismaClient.$connect(),
\* whose outcome (r) becomes the outcome of start().
ConnectDecision(t, r) ==
  IF LazyConnect
    THEN /\ r = "ok"
         /\ calls' = SetCall(t, [CallRec(t) EXCEPT !.kind = "start", !.pc = "done",
                                                   !.sawInit = (t > Len(calls))])
         /\ UNCHANGED connectCalls
    ELSE /\ connectCalls' = connectCalls + 1
         /\ calls' = SetCall(t, [CallRec(t) EXCEPT
                        !.kind = "start", !.connects = 1,
                        !.sawInit = (t > Len(calls)),
                        !.pc = IF r = "ok" THEN "done" ELSE "failed",
                        !.err = IF r = "ok" THEN "none" ELSE "ConnectError"])

\* A call of start(): `if (!this._isInitialized) await this.init();` runs
\* init() up to its first await, or goes on to the connect decision.
CallStart ==
  /\ phase = "constructed"
  /\ nOps < MaxOps
  /\ nOps' = nOps + 1
  /\ IF ~isInitialized
       THEN InitBegin(Len(calls) + 1, "start")
       ELSE /\ \E r \in {"ok", "fail"} :
                 ConnectDecision(Len(calls) + 1, r)
            /\ UNCHANGED <<container, component, used, clientOpts, nClients,
                           disconnectCalls>>
  /\ UNCHANGED <<phase, stopCalls, suppliedClient, regAfterInit, listenerErrors>>

\* start() resumed after `await this.init()` has completed.
ResumeStart(t) ==
  /\ calls[t].pc = "awaitInit"
  /\ \E r \in {"ok", "fail"} : ConnectDecision(t, r)
  /\ UNCHANGED <<phase, container, component, used, clientOpts, nClients,
                 disconnectCalls, stopCalls, nOps, suppliedClient, regAfterInit,
                 listenerErrors>>

\* A plausible slip: stop() without its guard.
StopWithoutGuard ==
  /\ phase = "constructed"
  /\ nOps < MaxOps
  /\ nOps' = nOps + 1
  /\ stopCalls' = stopCalls + 1
  /\ disconnectCalls' = disconnectCalls + 1
  /\ UNCHANGED <<phase, container, component, used, clientOpts, nClients,
                 connectCalls, calls, suppliedClient, regAfterInit, listenerErrors>>

\* stop(): `if (!this._isInitialized) return; return this._prismaClient.$disconnect();`
Stop ==
  /\ phase = "constructed"
  /\ nOps < MaxOps
  /\ nOps' = nOps + 1
  /\ stopCalls' = stopCalls + 1
  /\ disconnectCalls' = IF isInitialized THEN disconnectCalls + 1 ELSE disconnectCalls
  /\ UNCHANGED <<phase, container, component, used, clientOpts, nClients,
                 connectCalls, calls, suppliedClient, regAfterInit, listenerErrors>>

\* ---------------------------------------------------------------- bind notifications
\* A plausible slip: the listener tests the binding's type only.
MiddlewareBindingConstant(b) == b.type = "CONSTANT"

\* The init() listener's test of the binding.
MiddlewareBindingValid(b) == b.type = "CONSTANT" /\ b.scope = "SINGLETON"

\* The oldest queued bind notification reaches the view, which calls its
\* 'bind' listeners in the order they were registered: the constructor's
\* (binding.lock()), then each one init() registered (the test, then $use on
\* the client bound in the context).  A listener that throws ends the
\* delivery; the view drops its cache (refresh), which a throw may prevent.
Deliver ==
  /\ pending # <<>>
  /\ pending' = Tail(pending)
  /\ mwB' = [mwB EXCEPT ![Head(pending)] = LockMiddleware(@)]
  /\ IF attachListeners = 0
       THEN /\ cacheValid' = FALSE
            /\ UNCHANGED <<used, listenerErrors>>
       ELSE IF MiddlewareBindingValid(mwB[Head(pending)])
         THEN /\ used' = [used EXCEPT ![clientB.value] =
                            @ \o [i \in 1..attachListeners |-> mwB[Head(pending)].value]]
              /\ cacheValid' = FALSE
              /\ UNCHANGED listenerErrors
         ELSE /\ listenerErrors' = listenerErrors + 1
              /\ cacheValid' \in {cacheValid, FALSE}
              /\ UNCHANGED used
  /\ UNCHANGED <<phase, configB, clientB, modelB, nextId, isInitialized, prismaClient,
                 options, optionsBinding, staleLocked, cachedBindings,
                 attachListeners, clientOpts, nClients, connectCalls,
                 disconnectCalls, calls, stopCalls, nOps, suppliedClient,
                 regAfterInit>>

\* ---------------------------------------------------------------- specification
Next ==
  \/ \E o \in OptionChoices : Configure(o)
  \/ \E c \in ExternalClients, k \in BindingKinds : BindClient(c, k[1], k[2])
  \/ \E k \in BindingKinds : RegisterMiddleware(k[1], k[2])
  \/ \E pc \in {NoClient} \cup ExternalClients, o \in OptionChoices : Construct(pc, o)
  \/ CallInit
  \/ CallStart
  \/ \E t \in 1..Len(calls) : ResumeGet(t)
  \/ \E t \in 1..Len(calls) : ResumeValues(t)
  \/ \E t \in 1..Len(calls) : ResumeStart(t)
  \/ Stop
  \/ Deliver

Spec == Init /\ [][Next]_vars


\* ---------------------------------------------------------------- claims
\* The step makes a new call of the given kind.
NewCall(k) == Len(calls') = Len(calls) + 1 /\ calls'[Len(calls')].kind = k

C2_OneClientStableHandle ==
  [][/\ nClients' <= 1
     /\ (prismaClient # NoClient => prismaClient' = prismaClient)]_vars

\* C3: after init() has completed successfully, every attempt to rebind the
\* configuration binding or the client-handle binding fails: no step replaces
\* either registry entry.
C3_RebindFailsAfterInit ==
  [][isInitialized => (configB' = configB /\ clientB' = clientB)]_vars

\* C4: constructing a coordinator fails if and only if a client handle is
\* passed to the constructor and the container has a client handle bound that
\* is a different instance.
C4_ConstructFailsIffConflict ==
  [][(phase = "app" /\ phase' # "app")
       => ((phase' = "ctorFailed")
             <=> (/\ suppliedClient' # NoClient
                  /\ clientB.bound
                  /\ clientB.value # suppliedClient'))]_vars

\* A construction failed, with a handle supplied and another one bound.
C4_Witness ==
  /\ phase = "ctorFailed"
  /\ suppliedClient # NoClient
  /\ clientB.bound /\ clientB.value # suppliedClient


\* The step completes the init() of call t (line 303).
InitCompletes(t) ==
  calls[t].pc = "awaitValues" /\ calls'[t].pc \in {"done", "awaitInit"}

Delivers == pending # <<>> /\ pending' = Tail(pending)

\* C6: for a constant, singleton-scoped middleware registered after init() has
\* completed, delivery of its bind event attaches it exactly once to the
\* client bound in the container, after all previously attached middleware,
\* and its binding is locked once the event has been handled.
C6_LateMiddlewareAttachedOnce ==
  [][(/\ Delivers
      /\ regAfterInit[Head(pending)]
      /\ MiddlewareBindingValid(mwB[Head(pending)]))
       => /\ used'[clientB.value] =
               Append(used[clientB.value], mwB[Head(pending)].value)
          /\ mwB'[Head(pending)].locked]_vars

\* The step takes call t of start() to its connect decision (line 322).
Decides(t) ==
  /\ calls'[t].kind = "start"
  /\ \/ t <= Len(calls) /\ calls[t].pc = "awaitInit" /\ calls'[t].pc # "awaitInit"
     \/ t > Len(calls) /\ isInitialized

C8_StopDisconnectsIffInitialized ==
  [][/\ (stopCalls' = stopCalls + 1)
          => /\ disconnectCalls' = (IF isInitialized THEN disconnectCalls + 1
                                                     ELSE disconnectCalls)
             /\ UNCHANGED <<container, component, used, clientOpts, nClients,
                            connectCalls, calls, phase>>
     /\ (stopCalls' = stopCalls) => disconnectCalls' = disconnectCalls]_vars

\* stop() was called before init() completed (no disconnect) and once after
\* (one disconnect), with start() never called.
C8_Witness ==
  /\ stopCalls = 2
  /\ disconnectCalls = 1
  /\ \A t \in 1..Len(calls) : calls[t].kind = "init"

\* C9: whenever connect is invoked the coordinator is initialized and the
\* configuration and client-handle bindings are already locked; start() on an
\* initialized coordinator performs none of init()'s effects again.
C9_InitializedAndLockedAtConnect ==
  [][/\ (connectCalls' # connectCalls)
          => (isInitialized /\ configB.locked /\ clientB.locked)
     /\ (isInitialized /\ NewCall("start"))
          => UNCHANGED <<container, component, used, clientOpts, nClients>>]_vars

\* The step makes a call that runs init() on a coordinator holding a supplied
\* client handle.
InitOnSupplied ==
  /\ suppliedClient # NoClient
  /\ ~isInitialized
  /\ Len(calls') = Len(calls) + 1

\* C10: init() on a coordinator holding a supplied client handle fails with
\* the dedicated client-not-singleton error kind whenever the container's
\* client-handle binding is not singleton-scoped or is not constant, and
\* passes this check when the binding is a singleton constant or absent.
C10_DedicatedErrorForBothDefects ==
  [][InitOnSupplied
       => IF clientB.bound /\ ~(clientB.scope = "SINGLETON" /\ clientB.type = "CONSTANT")
            THEN /\ calls'[Len(calls')].pc = "failed"
                 /\ calls'[Len(calls')].err = "PrismaClientNotSingletonError"
            ELSE calls'[Len(calls')].err
                   \notin {"PrismaClientNotSingletonError", "Error"}]_vars

\* C10 as amended: with the bound value being the supplied handle, a binding
\* that is not singleton-scoped fails init() with the dedicated error kind,
\* a singleton-scoped binding that is not constant fails it with a plain
\* Error, and a singleton constant or absent binding passes the check; a
\* bound value that is another instance fails the conflict check first.
C10_ErrorKindPerDefect ==
  [][InitOnSupplied
       => LET c == calls'[Len(calls')] IN
          IF clientB.bound /\ clientB.value # suppliedClient
            THEN c.pc = "failed" /\ c.err = "Conflict"
          ELSE IF clientB.bound /\ clientB.scope # "SINGLETON"
            THEN c.pc = "failed" /\ c.err = "PrismaClientNotSingletonError"
          ELSE IF clientB.bound /\ clientB.type # "CONSTANT"
            THEN c.pc = "failed" /\ c.err = "Error"
          ELSE c.pc = "awaitValues" /\ c.err = "none"]_vars

\* init() has failed with the dedicated error kind on a coordinator holding
\* a supplied handle that is bound, but not singleton-scoped.
C10_Witness ==
  /\ suppliedClient # NoClient
  /\ clientB.bound /\ clientB.value = suppliedClient /\ clientB.scope # "SINGLETON"
  /\ \E t \in 1..Len(calls) : calls[t].err = "PrismaClientNotSingletonError"

\* The elements of a sequence.
Range(s) == {s[i] : i \in 1..Len(s)}

\* C11: a middleware binding registered after init() has completed that is
\* not constant or not singleton-scoped is rejected with an error raised
\* inside the bind event handler when its bind event is delivered, the
\* delivery leaves every client's attached-middleware sequence unchanged, and
\* that middleware is never among the middleware attached to any client.
C11_InvalidLateMiddlewareRejected ==
  [][/\ (/\ Delivers
         /\ regAfterInit[Head(pending)]
         /\ (\/ mwB[Head(pending)].type # "CONSTANT"
             \/ mwB[Head(pending)].scope # "SINGLETON"))
          => /\ listenerErrors' = listenerErrors + 1
             /\ used' = used
     /\ \A i \in 1..Len(mwB') :
          (/\ regAfterInit'[i]
           /\ (mwB'[i].type # "CONSTANT" \/ mwB'[i].scope # "SINGLETON"))
            => \A c \in ClientIds : mwB'[i].value \notin Range(used'[c])]_vars

\* The bind event of a middleware that was registered after init() had
\* completed, and that is not a singleton constant, has been delivered and
\* rejected.
C11_Witness ==
  /\ listenerErrors > 0
  /\ \E i \in 1..Len(mwB) :
       /\ regAfterInit[i]
       /\ (mwB[i].type # "CONSTANT" \/ mwB[i].scope # "SINGLETON")
       /\ i \notin Range(pending)

\* C12: if a client handle is bound in the container at the moment init()
\* begins, no step of that call constructs a client or leaves the client-handle
\* binding holding another handle, and when the call's init() completes the
\* coordinator's client is the handle that was bound.
C12_InitAdoptsBoundHandle ==
  [][\A t \in 1..Len(calls) :
       (/\ calls[t].boundAt # NoClient
        /\ ~calls[t].sawInit
        /\ calls'[t] # calls[t])
         => /\ nClients' = nClients
            /\ clientB'.value = calls[t].boundAt
            /\ InitCompletes(t) => prismaClient' = calls[t].boundAt]_vars

\* C13: when the coordinator was constructed with a supplied client handle
\* and a different handle is bound in the container, the coordinator is not
\* initialized, the configuration and client-handle bindings are not locked,
\* no middleware is attached, connect was never invoked, and every init()
\* and start() call fails with an error and changes nothing of that.
C13_ConflictAfterConstructionFails ==
  [][(/\ phase = "constructed"
      /\ suppliedClient # NoClient
      /\ clientB.bound
      /\ clientB.value # suppliedClient)
       => /\ ~isInitialized
          /\ ~configB.locked /\ ~clientB.locked /\ ~staleLocked
          /\ \A c \in ClientIds : used[c] = <<>>
          /\ connectCalls = 0
          /\ (NewCall("init") \/ NewCall("start"))
               => /\ calls'[Len(calls')].pc = "failed"
                  /\ calls'[Len(calls')].err # "none"
                  /\ UNCHANGED <<container, component, clients>>]_vars

\* An init() and a start() call have failed on the conflicting-instance
\* check of a constructed coordinator whose supplied handle differs from
\* the bound one.
C13_Witness ==
  /\ phase = "constructed"
  /\ suppliedClient # NoClient
  /\ clientB.bound /\ clientB.value # suppliedClient
  /\ \E t, u \in 1..Len(calls) :
       /\ calls[t].kind = "init" /\ calls[t].err = "Conflict"
       /\ calls[u].kind = "start" /\ calls[u].err = "Conflict"

\* C14: when the init() run by a start() call used an existing client handle
\* (one supplied to the constructor, or one bound when init() began), that
\* start() invokes connect if and only if lazyConnect is not true in the
\* configuration that was bound in the container when its init() began.
C14_LazyConnectFromBoundConfig ==
  [][\A t \in 1..Len(calls) :
       (/\ Decides(t)
        /\ (suppliedClient # NoClient \/ calls[t].boundAt # NoClient))
         => ((calls'[t].connects = 1) <=> (calls[t].cfgAt.lazyConnect # "true"))]_vars

\* C15: when init() completes successfully, for every model name the client
\* exposes the container holds one binding for that model, under the key of
\* the model namespace and the model name and under no other key, carrying
\* the model tag, bound to the accessor of that model on the coordinator's
\* client, and locked; no key of a name the client does not expose is bound.
C15_ModelBindingsRegistered ==
  [][\A t \in 1..Len(calls) :
       InitCompletes(t)
         => /\ \A m \in Models :
                 LET b == modelB'[<<PRISMA_MODEL_NAMESPACE, ModelName(m)>>] IN
                 /\ b.bound
                 /\ PRISMA_MODEL_TAG \in b.tags
                 /\ b.value = <<prismaClient', AccessorName(ModelName(m))>>
                 /\ b.locked
                 /\ \A ns \in Namespaces \ {PRISMA_MODEL_NAMESPACE} :
                      ~modelB'[<<ns, ModelName(m)>>].bound
            /\ \A j \in (1..Len(ModelNames)) \ Models, ns \in Namespaces :
                 ~modelB'[<<ns, ModelName(j)>>].bound]_vars

\* The namespace and the tags an options object asks for: its models.namespace
\* and models.tags, the defaults where they are unset.
NamespaceAskedFor(o) ==
  IF o.hasModels /\ o.namespace # "unset" THEN o.namespace ELSE PRISMA_MODEL_NAMESPACE
TagsAskedFor(o) ==
  IF o.hasModels /\ o.tags # "unset" THEN {o.tags} ELSE {PRISMA_MODEL_TAG}

\* C16: when init() completes, every model binding it registered is keyed
\* under the models.namespace of the coordinator's options and carries their
\* models.tags, the defaults being used only where those are unset; no model
\* binding is under another namespace.
C16_ModelBindingsFollowOptions ==
  [][\A t \in 1..Len(calls) :
       InitCompletes(t)
         => \A m \in Models, ns \in Namespaces :
              LET b == modelB'[<<ns, ModelName(m)>>] IN
              IF ns = NamespaceAskedFor(options')
                THEN b.bound /\ b.tags = TagsAskedFor(options')
                ELSE ~b.bound]_vars

\* C17: once the coordinator is constructed, every middleware binding of the
\* extension point whose bind event is not still waiting to be delivered is
\* locked: those that existed at construction, and those registered later,
\* before or after init(), whether or not they are fit for attachment.
C17_MiddlewareBindingsLocked ==
  phase = "constructed"
    => \A i \in 1..Len(mwB) : i \notin Range(pending) => mwB[i].locked

\* The bind event of a middleware registered after init() completed was
\* delivered and rejected, a middleware registered before the first init()
\* or start() call is there too, and both bindings are locked.
C17_Witness ==
  /\ phase = "constructed"
  /\ pending = <<>>
  /\ listenerErrors > 0
  /\ \E i, j \in 1..Len(mwB) :
       /\ i < j
       /\ mwB[i].locked /\ ~regAfterInit[i] /\ calls # <<>> /\ calls[1].regd >= i
       /\ mwB[j].locked /\ regAfterInit[j]
       /\ (mwB[j].type # "CONSTANT" \/ mwB[j].scope # "SINGLETON")

C19_BoundClientIsCoordinatorsClient ==
  isInitialized
    => /\ clientB.bound
       /\ clientB.locked
       /\ clientB.scope = "SINGLETON"
       /\ clientB.type = "CONSTANT"
       /\ clientB.value = prismaClient

\* C20: at most one attaching bind listener is ever registered on the view,
\* and no middleware appears twice among the middleware attached to a client.
C20_AttachedOnceOneListener ==
  /\ attachListeners <= 1
  /\ \A c \in ClientIds :
       \A i, j \in 1..Len(used[c]) : used[c][i] = used[c][j] => i = j

\* C21: an init() run (by an init() or a start() call) on a coordinator that
\* holds a client handle while the bound handle is another instance, or its
\* binding is not singleton-scoped, or not constant, fails with an error and
\* leaves the coordinator, the container and the clients exactly as they
\* were: not initialized, no binding added or locked, no middleware attached,
\* no model binding registered.  This holds for every such call, a call that
\* follows a failed one included.
C21_FailedChecksChangeNothing ==
  [][(/\ Len(calls') = Len(calls) + 1
      /\ ~isInitialized
      /\ prismaClient # NoClient
      /\ clientB.bound
      /\ (\/ clientB.value # prismaClient
          \/ clientB.scope # "SINGLETON"
          \/ clientB.type # "CONSTANT"))
       => /\ calls'[Len(calls')].pc = "failed"
          /\ calls'[Len(calls')].err
               \in {"Conflict", "PrismaClientNotSingletonError", "Error"}
          /\ UNCHANGED <<container, component, clients, listenerErrors>>
          /\ ~isInitialized'
          /\ \A k \in ModelKeys : ~modelB'[k].bound]_vars

\* An init() run failed on the check of the client-handle binding and the
\* next one failed on the same check; the coordinator is not initialized, the
\* binding is not locked, nothing is attached and no model key is bound.
C21_Witness ==
  /\ ~isInitialized
  /\ clientB.bound /\ ~clientB.locked
  /\ \A c \in ClientIds : used[c] = <<>>
  /\ \A k \in ModelKeys : ~modelB[k].bound
  /\ \E t, u \in 1..Len(calls) :
       /\ t < u
       /\ calls[t].err \in {"PrismaClientNotSingletonError", "Error"}
       /\ calls[u].err = calls[t].err

====
